---- MODULE Spec2Model ----
(***************************************************************************)
(* Model of src/Server.js: an Express router over three mongoose           *)
(* collections (Task, Assignee, Assignment), the startup chain             *)
(* connect -> seedDatabase -> listen, and the fourteen request handlers.   *)
(*                                                                         *)
(* A collection is the sequence of its documents in insertion order (the   *)
(* order find({}) returns and the order in which findOne*, deleteOne pick  *)
(* "the first match").  Every handler but the two relationship traversals  *)
(* awaits exactly one store operation, so it is one atomic step; a         *)
(* traversal awaits two, and other requests may run between them.          *)
(*                                                                         *)
(* Not modelled: the createdAt/updatedAt timestamps the store maintains    *)
(* (no handler reads them), and loss of the store connection while the     *)
(* server is listening (the store is an environment that may fail during   *)
(* startup, which is where the program treats its failure specially).      *)
(***************************************************************************)
EXTENDS Integers, Sequences, FiniteSets, TLC

VARIABLES
    pc,           \* position of the startup chain (lines 254-260)
    runs,         \* how many times the process has been started
    tasks,        \* the Task collection
    assignees,    \* the Assignee collection
    assignments,  \* the Assignment collection
    nextId,       \* generateId(): the next identifier never produced before
    posts,        \* POST /tasks and POST /assignees served so far
    assigns,      \* POST .../assign/... served so far
    inflight,     \* traversal requests suspended between their two queries
    seedFrom,     \* history: the collections as this run's seedDatabase found them
    resp          \* the request last answered and its response

vars == <<pc, runs, tasks, assignees, assignments, nextId, posts, assigns,
         inflight, seedFrom, resp>>

store == <<tasks, assignees, assignments>>

----------------------------------------------------------------------------
(* Bounds of the exploration *)

MaxRuns == 2

MaxPosts == 1

MaxAssigns == 2

MaxInflight == 1

(* Program constants *)

NumSeedTasks == 20

NumSeedAssignees == 10

(* Markers for a field that a document or a request body does not carry *)

NoId == -1

NoNum == -1

Undef == "undefined"

(* An identifier a client makes up (any string that is not a generated UUID) *)

ClientId == 0

----------------------------------------------------------------------------
(* Template literals of the seeder: `Task ${i + 1}` and friends *)

NumStr ==
    <<"1", "2", "3", "4", "5", "6", "7", "8", "9", "10",
      "11", "12", "13", "14", "15", "16", "17", "18", "19", "20">>

(* Math.floor(Math.random() * 100): one draw per batch stands for the
   twenty independent draws; no handler depends on the value *)
SeedProgress == {0, 99}

SeedTask(i, id, p) ==
    [id |-> id, title |-> "Task " \o NumStr[i],
     description |-> "Description for Task " \o NumStr[i],
     status |-> "pending", progress |-> p,
     gen |-> id, seeded |-> TRUE]

SeedAssignee(i, id) ==
    [id |-> id, name |-> "Assignee " \o NumStr[i], role |-> "Developer",
     email |-> "Assignee" \o NumStr[i] \o ".Developer@gmail.com",
     initials |-> "AB", color |-> "teal",
     gen |-> id, seeded |-> TRUE]

SeedTasks(first, p) == [i \in 1..NumSeedTasks |-> SeedTask(i, first + i - 1, p)]

SeedAssignees(first) == [i \in 1..NumSeedAssignees |-> SeedAssignee(i, first + i - 1)]

(* Outcomes of an insertMany that rejects: the ordered batch stops at the
   failure, leaving a prefix stored (from nothing to all of it, when only
   the acknowledgement is lost) *)
PartialLens(n) == 0..n

----------------------------------------------------------------------------
(* Request bodies: one value per schema path, NoId/NoNum/Undef when the
   body does not carry the path *)

EmptyTaskBody ==
    [id |-> NoId, title |-> Undef, description |-> Undef,
     status |-> Undef, progress |-> NoNum]

EmptyAssigneeBody ==
    [id |-> NoId, name |-> Undef, role |-> Undef, email |-> Undef,
     initials |-> Undef, color |-> Undef]

TaskBodies ==
    { [EmptyTaskBody EXCEPT !.title = "Renamed"],
      [EmptyTaskBody EXCEPT !.id = ClientId, !.status = "done", !.progress = 100] }

AssigneeBodies ==
    { [EmptyAssigneeBody EXCEPT !.name = "Renamed"],
      [EmptyAssigneeBody EXCEPT !.id = ClientId, !.role = "Manager"] }

TaskFields == DOMAIN EmptyTaskBody

AssigneeFields == DOMAIN EmptyAssigneeBody

Absent(f) == IF f \in {"id", "progress"} THEN NoNum ELSE Undef

Supplied(body) == {f \in DOMAIN body : body[f] # Absent(f)}

(* The identifiers the seeder gives the first task and the first assignee
   of a fresh store *)
FirstTask == 1

FirstAssignee == NumSeedTasks + 1

(* Path parameters the clients send: those two and the made-up identifier *)
TaskParams == {FirstTask, ClientId}

AssigneeParams == {FirstAssignee, ClientId}

----------------------------------------------------------------------------
(* The mongoose model operations the handlers call *)

HasId(coll, id) == \E i \in 1..Len(coll) : coll[i].id = id

(* index of the first document whose id path equals id, 0 when none does *)
IndexOf(coll, id) ==
    IF HasId(coll, id)
    THEN CHOOSE i \in 1..Len(coll) :
            coll[i].id = id /\ \A j \in 1..(i - 1) : coll[j].id # id
    ELSE 0

RemoveAt(coll, i) == SubSeq(coll, 1, i - 1) \o SubSeq(coll, i + 1, Len(coll))

(* Model.findOne({ id }): the documents found, none or one *)
FindOne(coll, id) ==
    IF HasId(coll, id) THEN <<coll[IndexOf(coll, id)]>> ELSE <<>>

(* Model.find({ id: { $in: ids } }) *)
FindIn(coll, ids) == SelectSeq(coll, LAMBDA d : d.id \in ids)

(* Create without the unique index of lines 19, 26 and 34 *)
CreateUnindexed(coll, doc) == [ok |-> TRUE, coll |-> Append(coll, doc)]

(* Model.create(doc) under the unique index on id: throws on a duplicate *)
Create(coll, doc) ==
    IF HasId(coll, doc.id)
    THEN [ok |-> FALSE, coll |-> coll]
    ELSE [ok |-> TRUE, coll |-> Append(coll, doc)]

(* { id: generateId(), ...req.body }: a later key of the spread overrides *)
NewDoc(generated, body) ==
    [f \in DOMAIN body \cup {"gen", "seeded"} |->
        CASE f = "gen" -> generated
          [] f = "seeded" -> FALSE
          [] f = "id" -> IF body.id # NoId THEN body.id ELSE generated
          [] OTHER -> body[f]]

(* Merge as a wholesale replacement: a path the body lacks is unset *)
Overwrite(doc, body) ==
    [f \in DOMAIN doc |-> IF f \in DOMAIN body THEN body[f] ELSE doc[f]]

(* the update document applied to one stored document: $set of its paths *)
Merge(doc, body) ==
    [f \in DOMAIN doc |->
        IF f \in DOMAIN body /\ body[f] # Absent(f) THEN body[f] ELSE doc[f]]

(* Model.findOneAndUpdate({ id }, body, { new: true }) under the unique
   index: notfound, duplicate (throws) or updated *)
FindOneAndUpdate(coll, id, body) ==
    LET i == IndexOf(coll, id) IN
    IF i = 0
    THEN [result |-> "notfound", coll |-> coll, doc |-> <<>>]
    ELSE LET d == Merge(coll[i], body) IN
         IF \E j \in 1..Len(coll) : j # i /\ coll[j].id = d.id
         THEN [result |-> "duplicate", coll |-> coll, doc |-> <<>>]
         ELSE [result |-> "updated", coll |-> [coll EXCEPT ![i] = d],
               doc |-> <<d>>]

(* FindOneAndDelete filtering on the storage key _id, which no path
   parameter equals *)
FindByKeyAndDelete(coll, id) == coll

(* Model.findOneAndDelete({ id }): removes the first match, if any *)
FindOneAndDelete(coll, id) ==
    IF HasId(coll, id) THEN RemoveAt(coll, IndexOf(coll, id)) ELSE coll

IsPair(a, taskId, assigneeId) == a.taskId = taskId /\ a.assigneeId = assigneeId

(* DeleteOne as deleteMany: every match goes *)
DeleteAllMatching(coll, taskId, assigneeId) ==
    SelectSeq(coll, LAMBDA a : ~IsPair(a, taskId, assigneeId))

(* Assignment.deleteOne({ taskId, assigneeId }): removes the first match *)
DeleteOne(coll, taskId, assigneeId) ==
    IF \E i \in 1..Len(coll) : IsPair(coll[i], taskId, assigneeId)
    THEN RemoveAt(coll,
            CHOOSE i \in 1..Len(coll) :
                /\ IsPair(coll[i], taskId, assigneeId)
                /\ \A j \in 1..(i - 1) : ~IsPair(coll[j], taskId, assigneeId))
    ELSE coll

(* Assignment.find({ assigneeId }) and Assignment.find({ taskId }) *)
FindByAssignee(coll, assigneeId) == SelectSeq(coll, LAMBDA a : a.assigneeId = assigneeId)

FindByTask(coll, taskId) == SelectSeq(coll, LAMBDA a : a.taskId = taskId)

Range(s) == {s[i] : i \in 1..Len(s)}

----------------------------------------------------------------------------
(* Responses *)

NoResp ==
    [op |-> "none", p1 |-> NoId, p2 |-> NoId, reqBody |-> <<>>,
     status |-> 0, body |-> <<>>, error |-> ""]

Reply(op, p1, p2, reqBody, status, body) ==
    [op |-> op, p1 |-> p1, p2 |-> p2, reqBody |-> reqBody,
     status |-> status, body |-> body, error |-> ""]

(* catch (err) { res.status(500).json({ error: err.message }) } *)
Reply500(op, p1, p2, reqBody, message) ==
    [op |-> op, p1 |-> p1, p2 |-> p2, reqBody |-> reqBody,
     status |-> 500, body |-> <<>>, error |-> message]

DuplicateKey == "E11000 duplicate key error"

(* no seedDatabase is running: nothing to remember *)
NoSnapshot == <<<<>>, <<>>, <<>>>>

----------------------------------------------------------------------------
(* Startup: mongoose.connect(...).then(seedDatabase; listen).catch(log) *)

Init ==
    /\ pc = "connect"
    /\ runs = 1
    /\ tasks = <<>>
    /\ assignees = <<>>
    /\ assignments = <<>>
    /\ nextId = FirstTask
    /\ posts = 0
    /\ assigns = 0
    /\ inflight = {}
    /\ seedFrom = NoSnapshot
    /\ resp = NoResp

(* .then(async () => { ...; await seedDatabase(); *)
ConnectOk ==
    /\ pc = "connect"
    /\ pc' = "countTasks"
    /\ seedFrom' = store
    /\ UNCHANGED <<runs, store, nextId, posts, assigns, inflight, resp>>

(* the connection is refused: .catch(err => console.error(...)) *)
ConnectFail ==
    /\ pc = "connect"
    /\ pc' = "failed"
    /\ UNCHANGED <<runs, store, nextId, posts, assigns, inflight, resp, seedFrom>>

(* CountTasks with the emptiness test dropped *)
CountTasksIgnored ==
    /\ pc = "countTasks"
    /\ pc' = "insertTasks"
    /\ UNCHANGED <<runs, store, nextId, posts, assigns, inflight, resp, seedFrom>>

(* const taskCount = await Task.countDocuments(); if (taskCount === 0) *)
CountTasks ==
    /\ pc = "countTasks"
    /\ pc' = IF Len(tasks) = 0 THEN "insertTasks" ELSE "countAssignees"
    /\ UNCHANGED <<runs, store, nextId, posts, assigns, inflight, resp, seedFrom>>

InsertTasks ==
    /\ pc = "insertTasks"
    /\ \E p \in SeedProgress : tasks' = tasks \o SeedTasks(nextId, p)
    /\ nextId' = nextId + NumSeedTasks
    /\ pc' = "countAssignees"
    /\ UNCHANGED <<runs, assignees, assignments, posts, assigns, inflight, resp, seedFrom>>

InsertTasksFail ==
    /\ pc = "insertTasks"
    /\ \E p \in SeedProgress, k \in PartialLens(NumSeedTasks) :
          tasks' = tasks \o SubSeq(SeedTasks(nextId, p), 1, k)
    /\ nextId' = nextId + NumSeedTasks
    /\ pc' = "failed"
    /\ UNCHANGED <<runs, assignees, assignments, posts, assigns, inflight, resp, seedFrom>>

CountAssignees ==
    /\ pc = "countAssignees"
    /\ pc' = IF Len(assignees) = 0 THEN "insertAssignees" ELSE "listen"
    /\ UNCHANGED <<runs, store, nextId, posts, assigns, inflight, resp, seedFrom>>

InsertAssignees ==
    /\ pc = "insertAssignees"
    /\ assignees' = assignees \o SeedAssignees(nextId)
    /\ nextId' = nextId + NumSeedAssignees
    /\ pc' = "listen"
    /\ UNCHANGED <<runs, tasks, assignments, posts, assigns, inflight, resp, seedFrom>>

InsertAssigneesFail ==
    /\ pc = "insertAssignees"
    /\ \E k \in PartialLens(NumSeedAssignees) :
          assignees' = assignees \o SubSeq(SeedAssignees(nextId), 1, k)
    /\ nextId' = nextId + NumSeedAssignees
    /\ pc' = "failed"
    /\ UNCHANGED <<runs, tasks, assignments, posts, assigns, inflight, resp, seedFrom>>

(* a countDocuments that rejects: seedDatabase rejects, the catch logs *)
CountFail ==
    /\ pc \in {"countTasks", "countAssignees"}
    /\ pc' = "failed"
    /\ UNCHANGED <<runs, store, nextId, posts, assigns, inflight, resp, seedFrom>>

(* Listen with seedDatabase() not awaited *)
ListenEarly ==
    /\ pc \in {"countTasks", "listen"}
    /\ pc' = "listening"
    /\ seedFrom' = NoSnapshot
    /\ UNCHANGED <<runs, store, nextId, posts, assigns, inflight, resp>>

(* app.listen(PORT, ...) *)
Listen ==
    /\ pc = "listen"
    /\ pc' = "listening"
    /\ seedFrom' = NoSnapshot
    /\ UNCHANGED <<runs, store, nextId, posts, assigns, inflight, resp>>

(* the process ends and is started again; the store keeps its documents *)
Restart ==
    /\ pc \in {"failed", "listening"}
    /\ runs < MaxRuns
    /\ runs' = runs + 1
    /\ pc' = "connect"
    /\ inflight' = {}
    /\ resp' = NoResp
    /\ seedFrom' = NoSnapshot
    /\ UNCHANGED <<store, nextId, posts, assigns>>

----------------------------------------------------------------------------
(* Handlers.  Express dispatches only once app.listen has run. *)

Serving == pc = "listening"

(* app.get('/tasks') *)
GetTasks ==
    /\ Serving
    /\ resp' = Reply("GET /tasks", NoId, NoId, <<>>, 200, tasks)
    /\ UNCHANGED <<pc, runs, store, nextId, posts, assigns, inflight, seedFrom>>

(* app.post('/tasks') *)
PostTasks(body) ==
    /\ Serving
    /\ posts < MaxPosts
    /\ LET newTask == NewDoc(nextId, body)
           created == Create(tasks, newTask)
       IN  /\ tasks' = created.coll
           /\ resp' = IF created.ok
                      THEN Reply("POST /tasks", NoId, NoId, body, 201, <<newTask>>)
                      ELSE Reply500("POST /tasks", NoId, NoId, body, DuplicateKey)
    /\ nextId' = nextId + 1
    /\ posts' = posts + 1
    /\ UNCHANGED <<pc, runs, assignees, assignments, assigns, inflight, seedFrom>>

(* app.get('/tasks/:id') *)
GetTask(id) ==
    /\ Serving
    /\ LET task == FindOne(tasks, id)
       IN  resp' = IF task = <<>>
                   THEN Reply("GET /tasks/:id", id, NoId, <<>>, 404, <<>>)
                   ELSE Reply("GET /tasks/:id", id, NoId, <<>>, 200, task)
    /\ UNCHANGED <<pc, runs, store, nextId, posts, assigns, inflight, seedFrom>>

(* app.patch('/tasks/:id') *)
PatchTask(id, body) ==
    /\ Serving
    /\ LET updated == FindOneAndUpdate(tasks, id, body)
       IN  /\ tasks' = updated.coll
           /\ resp' = CASE updated.result = "duplicate" ->
                             Reply500("PATCH /tasks/:id", id, NoId, body, DuplicateKey)
                        [] updated.result = "notfound" ->
                             Reply("PATCH /tasks/:id", id, NoId, body, 404, <<>>)
                        [] OTHER ->
                             Reply("PATCH /tasks/:id", id, NoId, body, 200, updated.doc)
    /\ UNCHANGED <<pc, runs, assignees, assignments, nextId, posts, assigns, inflight, seedFrom>>

(* DeleteTask that also removes the assignments of the task *)
DeleteTaskCascade(id) ==
    /\ pc = "listening"
    /\ tasks' = FindOneAndDelete(tasks, id)
    /\ assignments' = SelectSeq(assignments, LAMBDA a : a.taskId # id)
    /\ resp' = Reply("DELETE /tasks/:id", id, NoId, <<>>, 204, <<>>)
    /\ UNCHANGED <<pc, runs, assignees, nextId, posts, assigns, inflight, seedFrom>>

(* app.delete('/tasks/:id') *)
DeleteTask(id) ==
    /\ Serving
    /\ tasks' = FindOneAndDelete(tasks, id)
    /\ resp' = Reply("DELETE /tasks/:id", id, NoId, <<>>, 204, <<>>)
    /\ UNCHANGED <<pc, runs, assignees, assignments, nextId, posts, assigns, inflight, seedFrom>>

(* app.get('/assignees') *)
GetAssignees ==
    /\ Serving
    /\ resp' = Reply("GET /assignees", NoId, NoId, <<>>, 200, assignees)
    /\ UNCHANGED <<pc, runs, store, nextId, posts, assigns, inflight, seedFrom>>

(* app.post('/assignees') *)
PostAssignees(body) ==
    /\ Serving
    /\ posts < MaxPosts
    /\ LET newAssignee == NewDoc(nextId, body)
           created == Create(assignees, newAssignee)
       IN  /\ assignees' = created.coll
           /\ resp' = IF created.ok
                      THEN Reply("POST /assignees", NoId, NoId, body, 201, <<newAssignee>>)
                      ELSE Reply500("POST /assignees", NoId, NoId, body, DuplicateKey)
    /\ nextId' = nextId + 1
    /\ posts' = posts + 1
    /\ UNCHANGED <<pc, runs, tasks, assignments, assigns, inflight, seedFrom>>

(* app.get('/assignees/:id') *)
GetAssignee(id) ==
    /\ Serving
    /\ LET assignee == FindOne(assignees, id)
       IN  resp' = IF assignee = <<>>
                   THEN Reply("GET /assignees/:id", id, NoId, <<>>, 404, <<>>)
                   ELSE Reply("GET /assignees/:id", id, NoId, <<>>, 200, assignee)
    /\ UNCHANGED <<pc, runs, store, nextId, posts, assigns, inflight, seedFrom>>

(* app.patch('/assignees/:id') *)
PatchAssignee(id, body) ==
    /\ Serving
    /\ LET updated == FindOneAndUpdate(assignees, id, body)
       IN  /\ assignees' = updated.coll
           /\ resp' = CASE updated.result = "duplicate" ->
                             Reply500("PATCH /assignees/:id", id, NoId, body, DuplicateKey)
                        [] updated.result = "notfound" ->
                             Reply("PATCH /assignees/:id", id, NoId, body, 404, <<>>)
                        [] OTHER ->
                             Reply("PATCH /assignees/:id", id, NoId, body, 200, updated.doc)
    /\ UNCHANGED <<pc, runs, tasks, assignments, nextId, posts, assigns, inflight, seedFrom>>

(* app.delete('/assignees/:id') *)
DeleteAssignee(id) ==
    /\ Serving
    /\ assignees' = FindOneAndDelete(assignees, id)
    /\ resp' = Reply("DELETE /assignees/:id", id, NoId, <<>>, 204, <<>>)
    /\ UNCHANGED <<pc, runs, tasks, assignments, nextId, posts, assigns, inflight, seedFrom>>

(* PostAssign that answers with the stored assignment of the pair when
   there is one *)
PostAssignDedup(taskId, assigneeId) ==
    /\ pc = "listening"
    /\ assigns < MaxAssigns
    /\ LET newAssignment == [id |-> nextId, taskId |-> taskId,
                             assigneeId |-> assigneeId, gen |-> nextId]
           old == SelectSeq(assignments, LAMBDA a : IsPair(a, taskId, assigneeId))
       IN  IF old = <<>>
           THEN /\ assignments' = Append(assignments, newAssignment)
                /\ resp' = Reply("POST assign", taskId, assigneeId, <<>>, 201,
                                 <<newAssignment>>)
           ELSE /\ assignments' = assignments
                /\ resp' = Reply("POST assign", taskId, assigneeId, <<>>, 201,
                                 <<old[1]>>)
    /\ nextId' = nextId + 1
    /\ assigns' = assigns + 1
    /\ UNCHANGED <<pc, runs, tasks, assignees, posts, inflight, seedFrom>>

(* app.post('/tasks/:taskId/assign/:assigneeId') *)
PostAssign(taskId, assigneeId) ==
    /\ Serving
    /\ assigns < MaxAssigns
    /\ LET newAssignment == [id |-> nextId, taskId |-> taskId,
                             assigneeId |-> assigneeId, gen |-> nextId]
           created == Create(assignments, newAssignment)
       IN  /\ assignments' = created.coll
           /\ resp' = IF created.ok
                      THEN Reply("POST assign", taskId, assigneeId, <<>>, 201,
                                 <<newAssignment>>)
                      ELSE Reply500("POST assign", taskId, assigneeId, <<>>, DuplicateKey)
    /\ nextId' = nextId + 1
    /\ assigns' = assigns + 1
    /\ UNCHANGED <<pc, runs, tasks, assignees, posts, inflight, seedFrom>>

(* app.delete('/tasks/:taskId/unassign/:assigneeId') *)
Unassign(taskId, assigneeId) ==
    /\ Serving
    /\ assignments' = DeleteOne(assignments, taskId, assigneeId)
    /\ resp' = Reply("DELETE unassign", taskId, assigneeId, <<>>, 204, <<>>)
    /\ UNCHANGED <<pc, runs, tasks, assignees, nextId, posts, assigns, inflight, seedFrom>>

(* app.get('/assignments') *)
GetAssignments ==
    /\ Serving
    /\ resp' = Reply("GET /assignments", NoId, NoId, <<>>, 200, assignments)
    /\ UNCHANGED <<pc, runs, store, nextId, posts, assigns, inflight, seedFrom>>

(* app.get('/assignees/:id/tasks'), up to its second await: the edges of
   the assignee are read, their taskIds kept *)
AssigneeTasksFirst(id) ==
    /\ Serving
    /\ Cardinality(inflight) < MaxInflight
    /\ LET found == FindByAssignee(assignments, id)
           taskIds == {a.taskId : a \in Range(found)}
       IN  inflight' = inflight \cup
              {[op |-> "GET /assignees/:id/tasks", id |-> id,
                ids |-> taskIds]}
    /\ UNCHANGED <<pc, runs, store, nextId, posts, assigns, resp, seedFrom>>

(* AssigneeTasksSecond joining against the assignments of the moment of
   the second query *)
AssigneeTasksRequery(req) ==
    /\ pc = "listening"
    /\ req \in inflight
    /\ req.op = "GET /assignees/:id/tasks"
    /\ inflight' = inflight \ {req}
    /\ resp' = Reply(req.op, req.id, NoId, <<>>, 200,
                     FindIn(tasks, {a.taskId : a \in
                                Range(FindByAssignee(assignments, req.id))}))
    /\ UNCHANGED <<pc, runs, store, nextId, posts, assigns, seedFrom>>

(* ... and from its second await to the response *)
AssigneeTasksSecond(req) ==
    /\ Serving
    /\ req \in inflight
    /\ req.op = "GET /assignees/:id/tasks"
    /\ inflight' = inflight \ {req}
    /\ resp' = Reply(req.op, req.id, NoId, <<>>, 200, FindIn(tasks, req.ids))
    /\ UNCHANGED <<pc, runs, store, nextId, posts, assigns, seedFrom>>

(* app.get('/tasks/:taskId/assignees'), likewise in two steps *)
TaskAssigneesFirst(taskId) ==
    /\ Serving
    /\ Cardinality(inflight) < MaxInflight
    /\ LET found == FindByTask(assignments, taskId)
           assigneeIds == {a.assigneeId : a \in Range(found)}
       IN  inflight' = inflight \cup
              {[op |-> "GET /tasks/:taskId/assignees", id |-> taskId,
                ids |-> assigneeIds]}
    /\ UNCHANGED <<pc, runs, store, nextId, posts, assigns, resp, seedFrom>>

TaskAssigneesSecond(req) ==
    /\ Serving
    /\ req \in inflight
    /\ req.op = "GET /tasks/:taskId/assignees"
    /\ inflight' = inflight \ {req}
    /\ resp' = Reply(req.op, req.id, NoId, <<>>, 200, FindIn(assignees, req.ids))
    /\ UNCHANGED <<pc, runs, store, nextId, posts, assigns, seedFrom>>

----------------------------------------------------------------------------

Startup ==
    \/ ConnectOk
    \/ ConnectFail
    \/ CountTasks
    \/ InsertTasks
    \/ InsertTasksFail
    \/ CountAssignees
    \/ InsertAssignees
    \/ InsertAssigneesFail
    \/ CountFail
    \/ Listen
    \/ Restart

Requests ==
    \/ GetTasks
    \/ \E body \in TaskBodies : PostTasks(body)
    \/ \E id \in TaskParams : GetTask(id)
    \/ \E id \in TaskParams, body \in TaskBodies : PatchTask(id, body)
    \/ \E id \in TaskParams : DeleteTask(id)
    \/ GetAssignees
    \/ \E body \in AssigneeBodies : PostAssignees(body)
    \/ \E id \in AssigneeParams : GetAssignee(id)
    \/ \E id \in AssigneeParams, body \in AssigneeBodies : PatchAssignee(id, body)
    \/ \E id \in AssigneeParams : DeleteAssignee(id)
    \/ \E t \in TaskParams, a \in AssigneeParams : PostAssign(t, a)
    \/ \E t \in TaskParams, a \in AssigneeParams : Unassign(t, a)
    \/ GetAssignments
    \/ \E id \in AssigneeParams : AssigneeTasksFirst(id)
    \/ \E req \in inflight : AssigneeTasksSecond(req)
    \/ \E id \in TaskParams : TaskAssigneesFirst(id)
    \/ \E req \in inflight : TaskAssigneesSecond(req)

(* One run of the process against a fresh store that stays reachable *)
Boot ==
    \/ ConnectOk
    \/ CountTasks
    \/ InsertTasks
    \/ CountAssignees
    \/ InsertAssignees
    \/ Listen

(* The record handlers of the two resources, over a store that holds one
   assignment at most *)
Crud ==
    \/ \E body \in TaskBodies : PostTasks(body)
    \/ \E id \in TaskParams : GetTask(id)
    \/ \E id \in TaskParams, body \in TaskBodies : PatchTask(id, body)
    \/ \E id \in TaskParams : DeleteTask(id)
    \/ \E body \in AssigneeBodies : PostAssignees(body)
    \/ \E id \in AssigneeParams : GetAssignee(id)
    \/ \E id \in AssigneeParams, body \in AssigneeBodies : PatchAssignee(id, body)
    \/ \E id \in AssigneeParams : DeleteAssignee(id)
    \/ assigns = 0 /\ PostAssign(FirstTask, FirstAssignee)

(* The relation around the first seeded task: edges to an assignee that
   exists and to one that does not, made and removed; the records deleted
   under them; the traversals suspended between their two queries *)
Relation ==
    \/ DeleteTask(FirstTask)
    \/ DeleteAssignee(FirstAssignee)
    \/ \E a \in AssigneeParams : PostAssign(FirstTask, a)
    \/ \E a \in AssigneeParams : Unassign(FirstTask, a)
    \/ GetAssignments
    \/ \E id \in AssigneeParams : AssigneeTasksFirst(id)
    \/ \E req \in inflight : AssigneeTasksSecond(req)
    \/ TaskAssigneesFirst(FirstTask)
    \/ \E req \in inflight : TaskAssigneesSecond(req)

(* Traffic between restarts *)
Traffic ==
    \/ GetTasks
    \/ GetAssignees
    \/ \E body \in TaskBodies : PostTasks(body)
    \/ DeleteTask(FirstTask)
    \/ assigns = 0 /\ PostAssign(FirstTask, FirstAssignee)
    \/ AssigneeTasksFirst(FirstAssignee)
    \/ \E req \in inflight : AssigneeTasksSecond(req)

Next == Startup \/ Requests

(* The whole program.  The claims are checked on the three specifications
   below, each a part of Next small enough to explore exhaustively: every
   behaviour of theirs is a behaviour of Spec. *)
Spec == Init /\ [][Next]_vars

(* the record handlers, one run *)
SpecCrud == Init /\ [][Boot \/ Crud]_vars

(* the relation handlers, one run *)
SpecRelation == Init /\ [][Boot \/ Relation]_vars

(* startup with a store that may fail, and restarts over the same store *)
SpecStartup == Init /\ [][Startup \/ Traffic]_vars

----------------------------------------------------------------------------
(* What the claims speak of *)

(* how many assignments join taskId and assigneeId *)
CountPair(coll, taskId, assigneeId) ==
    Len(SelectSeq(coll, LAMBDA a : IsPair(a, taskId, assigneeId)))

(* what GET /assignees/:id/tasks answers when nothing runs between its two
   queries, and likewise GET /tasks/:taskId/assignees *)
ListTasks(ts, edges, assigneeId) ==
    FindIn(ts, {a.taskId : a \in Range(FindByAssignee(edges, assigneeId))})

ListAssignees(as, edges, taskId) ==
    FindIn(as, {a.assigneeId : a \in Range(FindByTask(edges, taskId))})

Answered(op, p1, p2, status) ==
    resp.op = op /\ resp.p1 = p1 /\ resp.p2 = p2 /\ resp.status = status

Ids(coll) == {coll[i].id : i \in 1..Len(coll)}

----------------------------------------------------------------------------
(* C1 *)

AssignLists(a) ==
    (PostAssign(FirstTask, a) /\ resp'.status = 201
        /\ HasId(tasks, FirstTask) /\ HasId(assignees, a))
    => /\ HasId(ListTasks(tasks', assignments', a), FirstTask)
       /\ HasId(ListAssignees(assignees', assignments', FirstTask), a)

UnassignAfterAssign(a) ==
    /\ Answered("POST assign", FirstTask, a, 201)
    /\ Unassign(FirstTask, a)
    /\ HasId(tasks, FirstTask) /\ HasId(assignees, a)

(* C1 as stated: for a task T and an assignee A that exist, after a
   successful POST /tasks/T/assign/A both listings include the other, and
   after the DELETE /tasks/T/unassign/A that follows neither does. *)
C1_AsStated ==
    [][\A a \in AssigneeParams :
          /\ AssignLists(a)
          /\ UnassignAfterAssign(a)
             => /\ ~HasId(ListTasks(tasks', assignments', a), FirstTask)
                /\ ~HasId(ListAssignees(assignees', assignments', FirstTask), a)]_vars

(* C1 amended: after the POST both listings include the other; the DELETE
   that follows removes exactly one assignment of the pair, so the listings
   drop T and A when the pair had that one assignment and keep them when
   earlier assignments of the same pair remain. *)
C1_UnassignRemovesOne ==
    [][\A a \in AssigneeParams :
          /\ AssignLists(a)
          /\ UnassignAfterAssign(a)
             => /\ CountPair(assignments', FirstTask, a)
                     = CountPair(assignments, FirstTask, a) - 1
                /\ HasId(ListTasks(tasks', assignments', a), FirstTask)
                     <=> CountPair(assignments, FirstTask, a) > 1
                /\ HasId(ListAssignees(assignees', assignments', FirstTask), a)
                     <=> CountPair(assignments, FirstTask, a) > 1]_vars

(* an unassign has been answered and an older duplicate of the pair is
   still stored, so the task is still listed *)
C1_Witness ==
    /\ Answered("DELETE unassign", FirstTask, FirstAssignee, 204)
    /\ assigns = 2
    /\ CountPair(assignments, FirstTask, FirstAssignee) = 1
    /\ HasId(ListTasks(tasks, assignments, FirstAssignee), FirstTask)

----------------------------------------------------------------------------
(* C7: every POST /tasks/:taskId/assign/:assigneeId is answered 201 and
   appends exactly one assignment with these two ids and an identifier no
   stored assignment has, whether or not the pair is already joined and
   whether or not the task and the assignee exist; GET /assignments returns
   them all. *)
C7_NoDedup ==
    [][/\ \A a \in AssigneeParams :
             PostAssign(FirstTask, a)
             => /\ resp'.status = 201
                /\ Len(assignments') = Len(assignments) + 1
                /\ SubSeq(assignments', 1, Len(assignments)) = assignments
                /\ IsPair(assignments'[Len(assignments')], FirstTask, a)
                /\ assignments'[Len(assignments')].id \notin Ids(assignments)
                /\ CountPair(assignments', FirstTask, a)
                     = CountPair(assignments, FirstTask, a) + 1
       /\ GetAssignments => resp'.status = 200 /\ resp'.body = assignments]_vars

(* the same pair posted twice, for an assignee that does not exist *)
C7_Witness ==
    /\ Answered("POST assign", FirstTask, ClientId, 201)
    /\ CountPair(assignments, FirstTask, ClientId) = 2
    /\ ~HasId(assignees, ClientId)

----------------------------------------------------------------------------
(* C8: DELETE /tasks/:id and DELETE /assignees/:id leave the Assignment
   collection as it is; the assignments of the deleted record stay and
   GET /assignments returns them; the traversals answer 200 and leave the
   deleted record out. *)
C8_NoCascade ==
    [][/\ DeleteTask(FirstTask)
          => /\ assignments' = assignments
             /\ \A a \in AssigneeParams :
                   ~HasId(ListTasks(tasks', assignments', a), FirstTask)
       /\ DeleteAssignee(FirstAssignee)
          => /\ assignments' = assignments
             /\ ~HasId(ListAssignees(assignees', assignments', FirstTask),
                       FirstAssignee)
       /\ GetAssignments => resp'.body = assignments
       /\ \A req \in inflight :
             AssigneeTasksSecond(req) \/ TaskAssigneesSecond(req)
             => /\ resp'.status = 200
                /\ req.op = "GET /assignees/:id/tasks"
                   => Ids(resp'.body) \subseteq Ids(tasks)
                /\ req.op = "GET /tasks/:taskId/assignees"
                   => Ids(resp'.body) \subseteq Ids(assignees)]_vars

(* the task is gone, its assignment is not, and the traversal has answered
   with an empty list *)
C8_Witness ==
    /\ Answered("GET /assignees/:id/tasks", FirstAssignee, NoId, 200)
    /\ resp.body = <<>>
    /\ ~HasId(tasks, FirstTask)
    /\ CountPair(assignments, FirstTask, FirstAssignee) >= 1

----------------------------------------------------------------------------
(* C10: a traversal is two queries with other requests between them.  Its
   first query keeps the ids its assignments reference at that moment and
   its second returns the records present at that moment whose id is among
   them; it answers 200, with an empty array when there is none, and
   neither step changes a collection. *)
C10_TwoQueries ==
    [][/\ \A id \in AssigneeParams :
             AssigneeTasksFirst(id)
             => /\ store' = store
                /\ \A req \in inflight' \ inflight :
                      req.ids = {a.taskId : a \in
                                    {e \in Range(assignments) : e.assigneeId = id}}
       /\ TaskAssigneesFirst(FirstTask)
             => /\ store' = store
                /\ \A req \in inflight' \ inflight :
                      req.ids = {a.assigneeId : a \in
                                    {e \in Range(assignments) : e.taskId = FirstTask}}
       /\ \A req \in inflight :
             /\ AssigneeTasksSecond(req)
                => /\ store' = store
                   /\ resp'.status = 200
                   /\ Range(resp'.body) = {t \in Range(tasks) : t.id \in req.ids}
             /\ TaskAssigneesSecond(req)
                => /\ store' = store
                   /\ resp'.status = 200
                   /\ Range(resp'.body) = {x \in Range(assignees) : x.id \in req.ids}]_vars

(* the edge was removed between the two queries: the answer still holds
   the task, which no assignment joins to the assignee any more *)
C10_Witness ==
    /\ Answered("GET /assignees/:id/tasks", FirstAssignee, NoId, 200)
    /\ HasId(resp.body, FirstTask)
    /\ CountPair(assignments, FirstTask, FirstAssignee) = 0

----------------------------------------------------------------------------
(* C2: the id of every record is the identifier generateId() produced for
   it when it was created, whatever POST and PATCH bodies were sent. *)
C2_IdIsGenerated ==
    /\ \A i \in 1..Len(tasks) : tasks[i].id = tasks[i].gen
    /\ \A i \in 1..Len(assignees) : assignees[i].id = assignees[i].gen
    /\ \A i \in 1..Len(assignments) : assignments[i].id = assignments[i].gen

----------------------------------------------------------------------------
(* C3 *)

(* coll2 is coll with at most the supplied paths of the document id changed *)
PatchedOnly(coll, coll2, id, body) ==
    /\ Len(coll2) = Len(coll)
    /\ \A i \in 1..Len(coll) :
          IF coll[i].id = id
          THEN \A f \in DOMAIN body \ Supplied(body) : coll2[i][f] = coll[i][f]
          ELSE coll2[i] = coll[i]

PatchFrame(coll, coll2, id, body) ==
    /\ HasId(coll, id) => PatchedOnly(coll, coll2, id, body)
    /\ resp'.status = 200
       => \A f \in Supplied(body) : resp'.body[1][f] = body[f]
    /\ ~HasId(coll, id) => resp'.status = 404 /\ coll2 = coll

(* C3: PATCH on an existing task or assignee changes no path the body does
   not supply and no other document of any collection; on an id that no
   document has it answers 404 and changes nothing. *)
C3_PatchIsolation ==
    [][/\ resp'.op = "PATCH /tasks/:id"
          => LET id == resp'.p1
                 body == resp'.reqBody
             IN  PatchTask(id, body)
                 => /\ PatchFrame(tasks, tasks', id, body)
                    /\ assignees' = assignees /\ assignments' = assignments
       /\ resp'.op = "PATCH /assignees/:id"
          => LET id == resp'.p1
                 body == resp'.reqBody
             IN  PatchAssignee(id, body)
                 => /\ PatchFrame(assignees, assignees', id, body)
                    /\ tasks' = tasks /\ assignments' = assignments]_vars

(* the first seeded task renamed, its other paths as seeded *)
C3_Witness ==
    /\ Answered("PATCH /tasks/:id", FirstTask, NoId, 200)
    /\ \E i \in 1..Len(tasks) :
          /\ tasks[i].gen = FirstTask
          /\ tasks[i].title = "Renamed"
          /\ tasks[i].description = "Description for Task 1"
          /\ tasks[i].status = "pending"
    /\ Len(assignments) = 1

----------------------------------------------------------------------------
(* C4: DELETE /tasks/:id and DELETE /assignees/:id answer 204 whether or
   not a document has the id, leave the collection as it is when none has,
   and the GET of the same id that follows answers 404. *)
C4_DeleteThenNotFound ==
    [][/\ resp'.op = "DELETE /tasks/:id"
          => LET id == resp'.p1
             IN  DeleteTask(id)
                 => /\ resp'.status = 204
                    /\ ~HasId(tasks', id)
                    /\ ~HasId(tasks, id) => tasks' = tasks
       /\ (resp.op = "DELETE /tasks/:id" /\ resp.status = 204 /\ GetTask(resp.p1))
          => resp'.status = 404
       /\ resp'.op = "DELETE /assignees/:id"
          => LET id == resp'.p1
             IN  DeleteAssignee(id)
                 => /\ resp'.status = 204
                    /\ ~HasId(assignees', id)
                    /\ ~HasId(assignees, id) => assignees' = assignees
       /\ (resp.op = "DELETE /assignees/:id" /\ resp.status = 204
             /\ GetAssignee(resp.p1))
          => resp'.status = 404]_vars

(* the first seeded task has been deleted and the DELETE answered *)
C4_Witness ==
    /\ Answered("DELETE /tasks/:id", FirstTask, NoId, 204)
    /\ \A i \in 1..Len(tasks) : tasks[i].gen # FirstTask
    /\ ~HasId(tasks, FirstTask)

----------------------------------------------------------------------------
(* C9 *)

UniqueIds(coll) ==
    \A i, j \in 1..Len(coll) : coll[i].id = coll[j].id => i = j

(* C9: no two documents of a collection ever share an id; a POST whose
   document would take the id of a stored document of that collection is
   answered 500 with the error message and changes no collection. *)
C9_UniqueIds ==
    /\ [](UniqueIds(tasks) /\ UniqueIds(assignees) /\ UniqueIds(assignments))
    /\ [][/\ resp'.op = "POST /tasks"
             => LET body == resp'.reqBody
                IN  PostTasks(body) /\ HasId(tasks, NewDoc(nextId, body).id)
                    => resp'.status = 500 /\ resp'.error # "" /\ store' = store
          /\ resp'.op = "POST /assignees"
             => LET body == resp'.reqBody
                IN  PostAssignees(body) /\ HasId(assignees, NewDoc(nextId, body).id)
                    => resp'.status = 500 /\ resp'.error # "" /\ store' = store]_vars

(* a POST /tasks carrying the id of a stored task has been refused *)
C9_Witness ==
    /\ resp.op = "POST /tasks"
    /\ resp.status = 500
    /\ resp.reqBody.id = ClientId
    /\ HasId(tasks, ClientId)

----------------------------------------------------------------------------
(* C5 *)

SeededCount(coll) == Cardinality({i \in 1..Len(coll) : coll[i].seeded})

SeededBatch(coll, n) ==
    /\ Len(coll) = n
    /\ \A i \in 1..n : coll[i].seeded
    /\ UniqueIds(coll)

(* C5: when seedDatabase has completed, each of Task and Assignee holds
   exactly its 20 or 10 seeded records if seedDatabase found it empty and is
   as seedDatabase found it otherwise, each independently of the other; the
   Assignment collection is as it was throughout seeding; and however often
   the process is started no collection holds more than 20 seeded tasks or
   10 seeded assignees. *)
C5_SeedOnlyWhenEmpty ==
    /\ SeededCount(tasks) <= NumSeedTasks
    /\ SeededCount(assignees) <= NumSeedAssignees
    /\ pc \in {"countTasks", "insertTasks", "countAssignees",
               "insertAssignees", "listen"}
       => assignments = seedFrom[3]
    /\ pc = "listen"
       => /\ IF seedFrom[1] = <<>>
             THEN /\ SeededBatch(tasks, NumSeedTasks)
                  /\ \A i \in 1..NumSeedTasks :
                        /\ tasks[i].title = "Task " \o NumStr[i]
                        /\ tasks[i].status = "pending"
             ELSE tasks = seedFrom[1]
          /\ IF seedFrom[2] = <<>>
             THEN /\ SeededBatch(assignees, NumSeedAssignees)
                  /\ \A i \in 1..NumSeedAssignees : assignees[i].role = "Developer"
             ELSE assignees = seedFrom[2]

(* a second start that found tasks but no assignee: it seeded the
   assignees and kept the tasks *)
C5_Witness ==
    /\ pc = "listen"
    /\ runs = 2
    /\ seedFrom[1] # <<>>
    /\ seedFrom[2] = <<>>
    /\ tasks = seedFrom[1]
    /\ Len(assignees) = NumSeedAssignees

----------------------------------------------------------------------------
(* C6: the server starts listening only from a seedDatabase that has
   completed (both collections are then non-empty); no request is in flight
   or answered in a run that is not listening; and a run whose connection or
   seeding failed never listens. *)
C6_ListenAfterSeed ==
    /\ [](pc # "listening" => inflight = {} /\ resp = NoResp)
    /\ [][/\ (pc' = "listening" /\ pc # "listening")
             => pc = "listen" /\ Len(tasks) > 0 /\ Len(assignees) > 0
          /\ (resp' # resp \/ inflight' # inflight
                \/ posts' # posts \/ assigns' # assigns)
             => \/ pc = "listening" /\ pc' = "listening"
                \/ runs' = runs + 1 /\ pc' = "connect"
          /\ (ConnectFail \/ CountFail \/ InsertTasksFail \/ InsertAssigneesFail)
             => pc' = "failed"
          /\ (pc = "failed" /\ runs' = runs) => pc' = "failed"]_vars

(* a run that failed in seeding, and the next one serving the whole batch *)
C6_Witness ==
    /\ pc = "listening"
    /\ runs = 2
    /\ Answered("GET /tasks", NoId, NoId, 200)
    /\ Len(resp.body) = NumSeedTasks
    /\ nextId > NumSeedTasks + NumSeedTasks

====
